---- MODULE Spec2Model ----
(***************************************************************************)
(* Model of the submission proxy of src/api/submit.js: the in-memory rate  *)
(* limiter, the duplicate ledger, the Turnstile verification step, the     *)
(* manual redirect-following relay (httpsGet) and the request handler.     *)
(*                                                                         *)
(* Time is the value of Date.now() in milliseconds.  The clock only takes  *)
(* values of Instants: the edges of the rate-limit and retention windows   *)
(* plus a few milliseconds, so that "now = resetAt" and "now = resetAt+1"  *)
(* are both reachable.                                                     *)
(*                                                                         *)
(* Specifications: SpecLimiter calls checkRateLimit and the sweep on their *)
(* own; Spec follows the handler over Requests; SpecBurst follows one      *)
(* client past the rate-limit ceiling; SpecConcurrent suspends several     *)
(* invocations with the same submission_id at once; SpecValidate applies   *)
(* validateScorecardPayload to a set of payloads.                          *)
(***************************************************************************)
EXTENDS Integers, Sequences, FiniteSets, TLC

\* ---------------------------------------------------------------- constants
RATE_LIMIT_WINDOW == 60 * 1000
RATE_LIMIT_MAX == 10
SWEEP_INTERVAL == 5 * 60 * 1000
DEDUP_WINDOW == 5 * 60 * 1000
DEFAULT_MAX_REDIRECTS == 5

\* ------------------------------------------------------------------- bounds
MaxWindows == 1     \* the clock reaches the first MaxWindows rate-limit windows,
MaxSweeps == 1      \* the first MaxSweeps sweep intervals (retention windows),
MaxOffset == 2      \* and 1..MaxOffset milliseconds past each of them
MaxExcess == 2      \* calls modelled beyond RATE_LIMIT_MAX in one window
MaxPosts == 2       \* POSTs per identifier and window followed through the handler
MaxInflight == 1    \* handler invocations suspended at an await at once
MaxOver == 1        \* how far past the end of its range a score is tried
MaxConcurrent == 2  \* invocations suspended at once where they race

Instants ==
  { a * RATE_LIMIT_WINDOW + b : a \in 0..MaxWindows, b \in 1..MaxOffset } \cup
  { c * SWEEP_INTERVAL + b : c \in 1..MaxSweeps, b \in 1..MaxOffset }

\* The instants the handler is followed at: the edges of the retention window.
HandlerInstants ==
  { c * DEDUP_WINDOW + b : c \in 0..MaxSweeps, b \in 1..MaxOffset }

\* ------------------------------------------------------------ JS plain objects
\* Both ledgers are plain objects ({}), so a lookup ledger[key] also finds the
\* properties every object inherits from Object.prototype.
ObjectPrototypeKeys == {"constructor"}

NoEntry == [count |-> 0, resetAt |-> 0]     \* the key is no own property
NoStamp == 0                                \* the key is no own property

Ips == {"unknown", "ip1", "constructor"}
Ids == {"s1", "constructor"}

VARIABLES
  now,                \* Date.now()
  rateLimitMap,       \* own properties of rateLimitMap: ip -> {count, resetAt}
  sweepDue,           \* when the setInterval sweep is next due
  recentSubmissions,  \* own properties of recentSubmissions: id -> timestamp
  secret,             \* whether TURNSTILE_SECRET is non-empty
  inflight,           \* handler invocations suspended at an await
  resp,               \* the response written by the last handler step
  out,                \* the outbound request issued by the last handler step
  settled,            \* how the last httpsGet promise settled
  logs,               \* the console lines written by the last handler step
  win,                \* history: per identifier, the window last opened
  accepted,           \* history: submission ids relayed with a final response
  unswept,            \* history: the rate-limit ledger as it is with no sweep
  checked             \* a payload given to validateScorecardPayload, and the result

vars == <<now, rateLimitMap, sweepDue, recentSubmissions, secret, inflight,
          resp, out, settled, logs, win, accepted, unswept, checked>>

\* ------------------------------------------------------------ rate limiter
\* checkRateLimit(ip) at time t on ledger map: the new ledger and the decision.
\* For a key inherited from Object.prototype, rateLimitMap[ip] is truthy and
\* has no resetAt (now > undefined is false), count++ lands on the inherited
\* object as NaN, and NaN <= RATE_LIMIT_MAX is false: the ledger is unchanged.
checkRateLimit_admitsOneMore(map, ip, t) ==
  IF map[ip] = NoEntry /\ ip \notin ObjectPrototypeKeys
  THEN [map |-> [map EXCEPT ![ip] = [count |-> 1, resetAt |-> t + RATE_LIMIT_WINDOW]],
        ok |-> TRUE]
  ELSE IF map[ip] = NoEntry
  THEN [map |-> map, ok |-> FALSE]
  ELSE IF t > map[ip].resetAt
  THEN [map |-> [map EXCEPT ![ip] = [count |-> 1, resetAt |-> t + RATE_LIMIT_WINDOW]],
        ok |-> TRUE]
  ELSE [map |-> [map EXCEPT ![ip].count = @ + 1],
        ok |-> map[ip].count + 1 <= RATE_LIMIT_MAX + 1]

checkRateLimit_extendsWindow(map, ip, t) ==
  IF map[ip] = NoEntry /\ ip \notin ObjectPrototypeKeys
  THEN [map |-> [map EXCEPT ![ip] = [count |-> 1, resetAt |-> t + RATE_LIMIT_WINDOW]],
        ok |-> TRUE]
  ELSE IF map[ip] = NoEntry
  THEN [map |-> map, ok |-> FALSE]
  ELSE IF t > map[ip].resetAt
  THEN [map |-> [map EXCEPT ![ip] = [count |-> @.count + 1,
                                     resetAt |-> t + RATE_LIMIT_WINDOW]],
        ok |-> map[ip].count + 1 <= RATE_LIMIT_MAX]
  ELSE [map |-> [map EXCEPT ![ip].count = @ + 1],
        ok |-> map[ip].count + 1 <= RATE_LIMIT_MAX]

checkRateLimit_denialExtendsWindow(map, ip, t) ==
  IF map[ip] = NoEntry /\ ip \notin ObjectPrototypeKeys
  THEN [map |-> [map EXCEPT ![ip] = [count |-> 1, resetAt |-> t + RATE_LIMIT_WINDOW]],
        ok |-> TRUE]
  ELSE IF map[ip] = NoEntry
  THEN [map |-> map, ok |-> FALSE]
  ELSE IF t > map[ip].resetAt
  THEN [map |-> [map EXCEPT ![ip] = [count |-> 1, resetAt |-> t + RATE_LIMIT_WINDOW]],
        ok |-> TRUE]
  ELSE IF map[ip].count + 1 <= RATE_LIMIT_MAX
  THEN [map |-> [map EXCEPT ![ip].count = @ + 1], ok |-> TRUE]
  ELSE [map |-> [map EXCEPT ![ip] = [count |-> @.count + 1,
                                     resetAt |-> t + RATE_LIMIT_WINDOW]],
        ok |-> FALSE]

checkRateLimit(map, ip, t) ==
  IF map[ip] = NoEntry /\ ip \notin ObjectPrototypeKeys
  THEN [map |-> [map EXCEPT ![ip] = [count |-> 1, resetAt |-> t + RATE_LIMIT_WINDOW]],
        ok |-> TRUE]
  ELSE IF map[ip] = NoEntry
  THEN [map |-> map, ok |-> FALSE]
  ELSE IF t > map[ip].resetAt
  THEN [map |-> [map EXCEPT ![ip] = [count |-> 1, resetAt |-> t + RATE_LIMIT_WINDOW]],
        ok |-> TRUE]
  ELSE [map |-> [map EXCEPT ![ip].count = @ + 1],
        ok |-> map[ip].count + 1 <= RATE_LIMIT_MAX]

\* The setInterval callback: delete the own entries whose window has expired.
sweep_comparesWindowStart(map, t) ==
  [ip \in DOMAIN map |->
     IF map[ip] # NoEntry /\ t > map[ip].resetAt - RATE_LIMIT_WINDOW
     THEN NoEntry ELSE map[ip]]

sweep(map, t) ==
  [ip \in DOMAIN map |->
     IF map[ip] # NoEntry /\ t > map[ip].resetAt THEN NoEntry ELSE map[ip]]

\* History of the windows, kept beside the ledger and never read by the code.
\* A call made while the identifier's last window is still running belongs to
\* that window; otherwise the call opens a window if it writes a fresh entry.
NoWin == [resetAt |-> 0, calls |-> 0, admitted |-> 0, denied |-> FALSE,
          afterDeny |-> FALSE, swept |-> FALSE]

InWindow(w, t) == w # NoWin /\ t <= w.resetAt

NoteCall(w, ip, t, r, old) ==
  IF InWindow(w, t)
  THEN [w EXCEPT !.calls = @ + 1,
                 !.admitted = IF r.ok THEN @ + 1 ELSE @,
                 !.denied = @ \/ ~r.ok]
  ELSE IF r.map[ip] # NoEntry /\ r.map[ip].count = 1
  THEN [resetAt |-> r.map[ip].resetAt, calls |-> 1,
        admitted |-> IF r.ok THEN 1 ELSE 0, denied |-> ~r.ok,
        afterDeny |-> w.denied, swept |-> w # NoWin /\ old = NoEntry]
  ELSE w

\* The bound on the calls of one window that the model follows.
CanCall(ip) ==
  \/ rateLimitMap[ip] = NoEntry
  \/ now > rateLimitMap[ip].resetAt
  \/ rateLimitMap[ip].count < RATE_LIMIT_MAX + MaxExcess

\* The bound on the POSTs of one window that the handler is followed through.
CanPost(ip) ==
  \/ rateLimitMap[ip] = NoEntry
  \/ now > rateLimitMap[ip].resetAt
  \/ rateLimitMap[ip].count < MaxPosts

\* The effect of one checkRateLimit(ip) call on the ledger and its history.
RateLimited(ip) ==
  \E r \in {checkRateLimit(rateLimitMap, ip, now)} :
    /\ rateLimitMap' = r.map
    /\ win' = [win EXCEPT ![ip] = NoteCall(@, ip, now, r, rateLimitMap[ip])]
    /\ unswept' = checkRateLimit(unswept, ip, now).map

handlerVars ==
  <<recentSubmissions, secret, inflight, resp, out, settled, logs, accepted, checked>>

\* ------------------------------------------------------------------ clock
Tick(t) ==
  /\ t > now
  /\ now' = t
  /\ UNCHANGED <<rateLimitMap, sweepDue, win, unswept, handlerVars>>

Sweep ==
  /\ now >= sweepDue
  /\ rateLimitMap' = sweep(rateLimitMap, now)
  /\ sweepDue' = now + SWEEP_INTERVAL
  /\ UNCHANGED <<now, win, unswept, handlerVars>>

\* ------------------------------------------- the rate limiter on its own
CallCheckRateLimit(ip) ==
  /\ CanCall(ip)
  /\ RateLimited(ip)
  /\ UNCHANGED <<now, sweepDue, handlerVars>>

\* A response: status, the kind of body, the httpStatus a "forwarded" body
\* carries, the headers set on res, the details a "Validation failed" body
\* carries.
NoResp == [status |-> 0, kind |-> "none", httpStatus |-> 0, headers |-> {},
           details |-> <<>>]
NoOut == [kind |-> "none", action |-> "", token |-> FALSE, hadToken |-> FALSE,
          verified |-> FALSE]
NoSettle == [state |-> "none", statusCode |-> 0, json |-> FALSE, marker |-> FALSE,
             reason |-> ""]

\* --------------------------------------------------------------- JS values
\* A JSON value of the request body: its type, for a string its text and
\* length, and what Number(value) yields (n, or NaN).
Undef == [t |-> "undefined", s |-> "", len |-> 0, n |-> 0, nan |-> TRUE]
StrV(text, length) ==
  [t |-> "string", s |-> text, len |-> length, n |-> 0, nan |-> length > 0]
NumV(k) == [t |-> "number", s |-> "", len |-> 0, n |-> k, nan |-> FALSE]
\* The string that is the decimal numeral of k.
NumStr(k) ==
  [t |-> "string", s |-> ToString(k), len |-> Len(ToString(k)), n |-> k, nan |-> FALSE]
Null == [t |-> "null", s |-> "", len |-> 0, n |-> 0, nan |-> FALSE]
Bool(b) ==
  [t |-> "boolean", s |-> "", len |-> 0, n |-> IF b THEN 1 ELSE 0, nan |-> FALSE]

Truthy(v) ==
  CASE v.t = "undefined" -> FALSE
    [] v.t = "null" -> FALSE
    [] v.t = "boolean" -> v.n = 1
    [] v.t = "string" -> v.len > 0
    [] v.t = "number" -> ~v.nan /\ v.n # 0
    [] OTHER -> TRUE

NoBody == [kind |-> "none"]      \* req.body is undefined

\* A payload is the function from its own properties to their values.
Payload(action, id, token, email, score) ==
  LET all == [f \in {"action", "submission_id", "turnstileToken", "email", "exit_score"} |->
                CASE f = "action" -> action
                  [] f = "submission_id" -> id
                  [] f = "turnstileToken" -> token
                  [] f = "email" -> email
                  [] OTHER -> score]
  IN [f \in {g \in DOMAIN all : all[g] # Undef} |-> all[f]]

OwnFields(p) == DOMAIN p

Get(p, f) == IF f \in DOMAIN p THEN p[f] ELSE Undef

\* ------------------------------------------------------- duplicate ledger
\* isDuplicate(id) at time t on ledger: purge, look up, record.  A key
\* inherited from Object.prototype is found by the lookup without ever
\* having been recorded.
isDuplicate_refreshesOnHit(ledger, id, t) ==
  IF ~Truthy(id) THEN [dup |-> FALSE, ledger |-> ledger]
  ELSE
    LET purged == [k \in DOMAIN ledger |->
                     IF ledger[k] # NoStamp /\ t - ledger[k] > DEDUP_WINDOW
                     THEN NoStamp ELSE ledger[k]]
    IN IF purged[id.s] # NoStamp \/ id.s \in ObjectPrototypeKeys
       THEN [dup |-> TRUE,
             ledger |-> IF purged[id.s] # NoStamp
                        THEN [purged EXCEPT ![id.s] = t] ELSE purged]
       ELSE [dup |-> FALSE, ledger |-> [purged EXCEPT ![id.s] = t]]

isDuplicate_recordsLater(ledger, id, t) ==
  IF ~Truthy(id) THEN [dup |-> FALSE, ledger |-> ledger]
  ELSE
    LET purged == [k \in DOMAIN ledger |->
                     IF ledger[k] # NoStamp /\ t - ledger[k] > DEDUP_WINDOW
                     THEN NoStamp ELSE ledger[k]]
    IN [dup |-> purged[id.s] # NoStamp \/ id.s \in ObjectPrototypeKeys,
        ledger |-> purged]

isDuplicate(ledger, id, t) ==
  IF ~Truthy(id) THEN [dup |-> FALSE, ledger |-> ledger]
  ELSE
    LET purged == [k \in DOMAIN ledger |->
                     IF ledger[k] # NoStamp /\ t - ledger[k] > DEDUP_WINDOW
                     THEN NoStamp ELSE ledger[k]]
    IN IF purged[id.s] # NoStamp \/ id.s \in ObjectPrototypeKeys
       THEN [dup |-> TRUE, ledger |-> purged]
       ELSE [dup |-> FALSE, ledger |-> [purged EXCEPT ![id.s] = t]]

\* ------------------------------------------------------------- validation
EmailRegexTest(text) == text \in {"a@b.co"}      \* /^[^\s@]+@[^\s@]+\.[^\s@]+$/

Violation(field, what) == [field |-> field, error |-> what]

TooLong(p, fields, limit) ==
  LET long(f) == Truthy(Get(p, f)) /\ Get(p, f).t = "string" /\ Get(p, f).len > limit
      hit == SelectSeq(fields, long)
  IN [i \in 1..Len(hit) |-> Violation(hit[i], "too long")]

LandingStringFields ==
  <<"source", "landing_url", "utm_source", "utm_medium", "utm_campaign",
    "utm_content", "utm_term">>

validateLandingPayload(p) ==
  LET email ==
        IF ~Truthy(Get(p, "email")) \/ Get(p, "email").t # "string"
        THEN <<Violation("email", "missing")>>
        ELSE IF Get(p, "email").len > 254
        THEN <<Violation("email", "too long")>>
        ELSE IF ~EmailRegexTest(Get(p, "email").s)
        THEN <<Violation("email", "invalid format")>>
        ELSE <<>>
  IN email \o TooLong(p, LandingStringFields, 500)

PillarFields ==
  <<"pillar_revenue", "pillar_moat", "pillar_economics", "pillar_leverage",
    "pillar_governance">>

ScorecardStringFields ==
  <<"company", "industry", "role", "revenue", "exitHorizon", "assessor", "rating">>

ValidSegments == {"A", "B", "C", "D", "F"}

OutOfRange(v, lo, hi) == v.nan \/ v.n < lo \/ v.n > hi

validateScorecardPayload(p) ==
  LET email ==
        IF Truthy(Get(p, "email")) /\ Get(p, "email").t = "string" /\ Get(p, "email").len > 254
        THEN <<Violation("email", "too long")>> ELSE <<>>
      score ==
        IF Get(p, "exit_score") # Undef /\ OutOfRange(Get(p, "exit_score"), 0, 100)
        THEN <<Violation("exit_score", "invalid")>> ELSE <<>>
      badPillar(f) == Get(p, f) # Undef /\ OutOfRange(Get(p, f), 0, 20)
      hit == SelectSeq(PillarFields, badPillar)
      pillars == [i \in 1..Len(hit) |-> Violation(hit[i], "invalid")]
      segment ==
        IF Truthy(Get(p, "segment")) /\ ~(Get(p, "segment").t = "string" /\ Get(p, "segment").s \in ValidSegments)
        THEN <<Violation("segment", "invalid")>> ELSE <<>>
  IN email \o score \o pillars \o segment \o TooLong(p, ScorecardStringFields, 300)

\* ----------------------------------------------------------- verification
\* What the verification service does with the siteverify request.
TurnstileOutcomes ==
  {"success", "failure", "no_verdict", "null", "unparseable", "error", "timeout"}

\* The value verifyTurnstile's promise resolves with.
verifyTurnstile_timeoutPasses(configured, outcome) ==
  IF ~configured THEN [isNull |-> FALSE, success |-> TRUE]
  ELSE CASE outcome \in {"success", "timeout"} -> [isNull |-> FALSE, success |-> TRUE]
         [] outcome = "null" -> [isNull |-> TRUE, success |-> FALSE]
         [] OTHER -> [isNull |-> FALSE, success |-> FALSE]

verifyTurnstile(configured, outcome) ==
  IF ~configured THEN [isNull |-> FALSE, success |-> TRUE]
  ELSE CASE outcome = "success" -> [isNull |-> FALSE, success |-> TRUE]
         [] outcome = "null" -> [isNull |-> TRUE, success |-> FALSE]
         [] OTHER -> [isNull |-> FALSE, success |-> FALSE]

\* ------------------------------------------------------------------ relay
RedirectStatus == {301, 302, 303, 307}

Reply(code, location, json, marker) ==
  [type |-> "response", statusCode |-> code, location |-> location,
   json |-> json, marker |-> marker]

\* What the downstream endpoint can answer to one GET.  location is "" for
\* no Location header, "absolute" for a full URL, "rooted" for a path
\* starting with "/", "malformed" for anything new URL() rejects.
RelayReplies ==
  { Reply(c, "absolute", FALSE, FALSE) : c \in RedirectStatus }
  \cup { Reply(302, l, FALSE, FALSE) : l \in {"rooted", "malformed"} }
  \cup { Reply(c, "", j, m) : c \in {200, 302}, j \in BOOLEAN, m \in BOOLEAN }
  \cup { [type |-> x, statusCode |-> 0, location |-> "", json |-> FALSE, marker |-> FALSE] :
           x \in {"error", "timeout"} }

\* One response handled by httpsGet(url, maxRedirects): follow the redirect
\* (a recursive call with maxRedirects - 1), resolve, or reject.
httpsGet_resetsBudget(maxRedirects, reply) ==
  LET budget == IF maxRedirects = 0 THEN DEFAULT_MAX_REDIRECTS ELSE maxRedirects IN
  CASE reply.type = "error" -> [do |-> "reject", reason |-> "error"]
    [] reply.type = "timeout" -> [do |-> "reject", reason |-> "Request timeout"]
    [] reply.statusCode \in RedirectStatus /\ reply.location # "" ->
         IF budget <= 0
         THEN [do |-> "reject", reason |-> "Too many redirects"]
         ELSE IF reply.location = "malformed"
         THEN [do |-> "reject", reason |-> "Invalid URL"]
         ELSE [do |-> "follow", reason |-> ""]
    [] OTHER -> [do |-> "resolve", reason |-> ""]

httpsGet(maxRedirects, reply) ==
  CASE reply.type = "error" -> [do |-> "reject", reason |-> "error"]
    [] reply.type = "timeout" -> [do |-> "reject", reason |-> "Request timeout"]
    [] reply.statusCode \in RedirectStatus /\ reply.location # "" ->
         IF maxRedirects <= 0
         THEN [do |-> "reject", reason |-> "Too many redirects"]
         ELSE IF reply.location = "malformed"
         THEN [do |-> "reject", reason |-> "Invalid URL"]
         ELSE [do |-> "follow", reason |-> ""]
    [] OTHER -> [do |-> "resolve", reason |-> ""]

\* --------------------------------------------------------------- responses
\* The headers the handler sets on res before anything else.
CorsHeaders ==
  { <<"Access-Control-Allow-Origin", "*">>,
    <<"Access-Control-Allow-Methods", "POST, OPTIONS">>,
    <<"Access-Control-Allow-Headers", "Content-Type">> }

Answer(status, kind) ==
  [status |-> status, kind |-> kind, httpStatus |-> 0, headers |-> CorsHeaders,
   details |-> <<>>]

\* The handler's translation of the response httpsGet resolved with.
Translate_propagatesStatus(reply) ==
  IF reply.json THEN Answer(200, "parsed")
  ELSE IF reply.marker THEN Answer(500, "configuration_error")
  ELSE [Answer(200, "forwarded") EXCEPT !.httpStatus = reply.statusCode]

Translate(reply) ==
  IF reply.json THEN Answer(200, "parsed")
  ELSE IF reply.marker THEN Answer(200, "configuration_error")
  ELSE [Answer(200, "forwarded") EXCEPT !.httpStatus = reply.statusCode]

\* ------------------------------------------------------------ the handler
NoHeader == <<>>                 \* no x-forwarded-for header

Trim(text) ==
  CASE text = " constructor" -> "constructor"
    [] text = " ip1" -> "ip1"
    [] text = " " -> ""
    [] OTHER -> text

ClientIp(xff) ==
  IF xff = NoHeader THEN "unknown"
  ELSE IF Trim(xff[1]) = "" THEN "unknown" ELSE Trim(xff[1])

SubmissionIds == {Undef, StrV("s1", 2)}
Tokens == {Undef, StrV("tok", 3)}
GoodEmail == StrV("a@b.co", 6)

Bodies ==
  {NoBody}
  \cup { Payload(a, id, Undef, GoodEmail, Undef) :
           a \in {Undef, StrV("", 0), StrV("bogus", 5)}, id \in SubmissionIds }
  \cup { Payload(StrV("landing", 7), id, tok, GoodEmail, Undef) :
           id \in SubmissionIds, tok \in Tokens }
  \cup { Payload(StrV("landing", 7), id, Undef, em, Undef) :
           id \in SubmissionIds, em \in {Undef, StrV("not-an-email", 12)} }
  \cup { Payload(StrV("scorecard", 9), id, tok, GoodEmail, NumV(75)) :
           id \in SubmissionIds, tok \in Tokens }
  \cup { Payload(StrV("scorecard", 9), id, Undef, Undef, NumV(150)) :
           id \in SubmissionIds }

Requests ==
  { [method |-> "POST", xff |-> NoHeader, body |-> b] : b \in Bodies }
  \cup { [method |-> "POST", xff |-> <<" constructor", " ip1">>, body |-> b] :
           b \in {NoBody, Payload(StrV("landing", 7), StrV("s1", 2), Undef, GoodEmail, Undef)} }
  \cup { [method |-> m, xff |-> NoHeader, body |-> NoBody] :
           m \in {"OPTIONS", "GET", "PUT"} }
  \cup { [method |-> m, xff |-> <<" ip1">>,
          body |-> Payload(StrV("landing", 7), StrV("s1", 2), Undef, GoodEmail, Undef)] :
           m \in {"OPTIONS", "GET"} }

\* JavaScript's text.substring(from, to).
Substring(text, from, to) ==
  SubSeq(text, from + 1, IF to < Len(text) THEN to ELSE Len(text))

\* The console lines of the handler (console.log joins its arguments with " ").
RateLimitedLine(ip) == "Rate limited: " \o Substring(ip, 0, 10) \o "..."
ForwardingLine(action, ip) ==
  "Forwarding: " \o action \o " | IP: " \o Substring(ip, 0, 10) \o "..."
TurnstileFailedLine(action) == "Turnstile failed for action: " \o action
ProxyErrorLine(message) == "Proxy error: " \o message
SignInPageLine ==
  "ERROR: Google Sign-In page returned. Check Apps Script deployment: must be \"Anyone\" access."

\* The method gate: the response it writes, or NoResp when the request passes.
MethodGate_noAllowHeader(method) ==
  IF method = "OPTIONS" THEN Answer(200, "empty")
  ELSE IF method # "POST" THEN Answer(405, "method_not_allowed")
  ELSE NoResp

MethodGate(method) ==
  IF method = "OPTIONS" THEN Answer(200, "empty")
  ELSE IF method # "POST"
  THEN [Answer(405, "method_not_allowed") EXCEPT !.headers = @ \cup {<<"Allow", "POST">>}]
  ELSE NoResp

Done(answer, ledger) ==
  [resp |-> answer, ledger |-> ledger, out |-> NoOut, logs |-> <<>>, cont |-> <<>>]

\* Steps 5 and 6: strip the token, serialize the payload into the relay URL
\* and issue the first GET of httpsGet(targetUrl).
StripToken_keepsToken(p) == p

\* History kept with a suspended invocation: when isDuplicate recorded its
\* submission_id (NoStamp when it carries none).
RecordedAt(p, t) == IF Truthy(Get(p, "submission_id")) THEN t ELSE NoStamp

StripToken(p) == [f \in DOMAIN p \ {"turnstileToken"} |-> p[f]]

StartRelay(p, ledger, verified, ip, t) ==
  LET q == StripToken(p) IN
  [resp |-> NoResp, ledger |-> ledger,
   out |-> [kind |-> "relay", action |-> Get(q, "action").s,
            token |-> "turnstileToken" \in OwnFields(q),
            hadToken |-> "turnstileToken" \in OwnFields(p),
            verified |-> verified],
   logs |-> <<ForwardingLine(Get(q, "action").s, ip)>>,
   cont |-> <<[pc |-> "relay", payload |-> q, ip |-> ip, at |-> RecordedAt(p, t),
               maxRedirects |-> DEFAULT_MAX_REDIRECTS, gets |-> 1]>>]

\* Step 4: the verification request, awaited.
StartVerify(p, ledger, ip, t) ==
  [resp |-> NoResp, ledger |-> ledger,
   out |-> [kind |-> "verify", action |-> Get(p, "action").s, token |-> FALSE,
            hadToken |-> "turnstileToken" \in OwnFields(p), verified |-> FALSE],
   logs |-> <<>>,
   cont |-> <<[pc |-> "verify", payload |-> p, ip |-> ip, at |-> RecordedAt(p, t),
               maxRedirects |-> 0, gets |-> 0]>>]

\* The try block of the handler up to its first await or its response.
Pipeline_verifiesBeforeValidating(body, ledger, t, configured, ip) ==
  IF body = NoBody \/ ~Truthy(Get(body, "action"))
  THEN Done(Answer(400, "missing_action"), ledger)
  ELSE
    LET d == IF Truthy(Get(body, "submission_id"))
             THEN isDuplicate(ledger, Get(body, "submission_id"), t)
             ELSE [dup |-> FALSE, ledger |-> ledger]
        action == Get(body, "action").s
        errors == IF action = "landing" THEN validateLandingPayload(body)
                  ELSE validateScorecardPayload(body)
    IN IF d.dup THEN Done(Answer(200, "duplicate"), d.ledger)
       ELSE IF action \notin {"landing", "scorecard"}
       THEN Done(Answer(400, "unknown_action"), d.ledger)
       ELSE IF action = "landing" /\ configured
       THEN StartVerify(body, d.ledger, ip, t)
       ELSE IF Len(errors) > 0
       THEN Done([Answer(400, "validation_failed") EXCEPT !.details = errors], d.ledger)
       ELSE StartRelay(body, d.ledger, FALSE, ip, t)

Pipeline(body, ledger, t, configured, ip) ==
  IF body = NoBody \/ ~Truthy(Get(body, "action"))
  THEN Done(Answer(400, "missing_action"), ledger)
  ELSE
    LET d == IF Truthy(Get(body, "submission_id"))
             THEN isDuplicate(ledger, Get(body, "submission_id"), t)
             ELSE [dup |-> FALSE, ledger |-> ledger]
        action == Get(body, "action").s
        errors == IF action = "landing" THEN validateLandingPayload(body)
                  ELSE validateScorecardPayload(body)
    IN IF d.dup THEN Done(Answer(200, "duplicate"), d.ledger)
       ELSE IF action \notin {"landing", "scorecard"}
       THEN Done(Answer(400, "unknown_action"), d.ledger)
       ELSE IF Len(errors) > 0
       THEN Done([Answer(400, "validation_failed") EXCEPT !.details = errors], d.ledger)
       ELSE IF action = "landing" /\ configured
       THEN StartVerify(body, d.ledger, ip, t)
       ELSE StartRelay(body, d.ledger, FALSE, ip, t)

\* One invocation of handler(req, res), up to its first await or its response.
HandlerStart_inspectsBeforeLimiting(req) ==
  IF MethodGate(req.method) # NoResp
  THEN /\ resp' = MethodGate(req.method)
       /\ out' = NoOut
       /\ settled' = NoSettle
       /\ logs' = <<>>
       /\ UNCHANGED <<now, rateLimitMap, sweepDue, recentSubmissions, secret,
                      inflight, win, accepted, unswept, checked>>
  ELSE
    LET ip == ClientIp(req.xff) IN
       /\ \E r \in {checkRateLimit(rateLimitMap, ip, now)},
             st \in {Pipeline(req.body, recentSubmissions, now, secret, ip)} :
            /\ rateLimitMap' = r.map
            /\ win' = [win EXCEPT ![ip] = NoteCall(@, ip, now, r, rateLimitMap[ip])]
            /\ unswept' = checkRateLimit(unswept, ip, now).map
            /\ recentSubmissions' = st.ledger
            /\ IF ~r.ok
               THEN /\ resp' = Answer(429, "rate_limited")
                    /\ out' = NoOut
                    /\ logs' = <<RateLimitedLine(ip)>>
                    /\ UNCHANGED inflight
               ELSE /\ resp' = st.resp
                    /\ out' = st.out
                    /\ logs' = st.logs
                    /\ inflight' = inflight \o st.cont
       /\ settled' = NoSettle
       /\ UNCHANGED <<now, sweepDue, secret, accepted, checked>>

HandlerStart(req) ==
  IF MethodGate(req.method) # NoResp
  THEN /\ resp' = MethodGate(req.method)
       /\ out' = NoOut
       /\ settled' = NoSettle
       /\ logs' = <<>>
       /\ UNCHANGED <<now, rateLimitMap, sweepDue, recentSubmissions, secret,
                      inflight, win, accepted, unswept, checked>>
  ELSE
    LET ip == ClientIp(req.xff) IN
       /\ \E r \in {checkRateLimit(rateLimitMap, ip, now)} :
            /\ rateLimitMap' = r.map
            /\ win' = [win EXCEPT ![ip] = NoteCall(@, ip, now, r, rateLimitMap[ip])]
            /\ unswept' = checkRateLimit(unswept, ip, now).map
            /\ IF ~r.ok
               THEN /\ resp' = Answer(429, "rate_limited")
                    /\ out' = NoOut
                    /\ logs' = <<RateLimitedLine(ip)>>
                    /\ UNCHANGED <<recentSubmissions, inflight>>
               ELSE \E st \in {Pipeline(req.body, recentSubmissions, now, secret, ip)} :
                    /\ resp' = st.resp
                    /\ out' = st.out
                    /\ logs' = st.logs
                    /\ recentSubmissions' = st.ledger
                    /\ inflight' = inflight \o st.cont
       /\ settled' = NoSettle
       /\ UNCHANGED <<now, sweepDue, secret, accepted, checked>>

Remove(seq, i) == SubSeq(seq, 1, i - 1) \o SubSeq(seq, i + 1, Len(seq))

\* The verification promise resolves and the handler resumes after step 4.
VerifyResolve(i, outcome) ==
  /\ i \in 1..Len(inflight)
  /\ inflight[i].pc = "verify"
  /\ \E result \in {verifyTurnstile(secret, outcome)},
        st \in {StartRelay(inflight[i].payload, recentSubmissions, TRUE, inflight[i].ip,
                       inflight[i].at)} :
        IF result.isNull
        THEN /\ resp' = Answer(500, "server_error")
             /\ out' = NoOut
             /\ logs' = <<ProxyErrorLine("Cannot read properties of null (reading 'success')")>>
             /\ inflight' = Remove(inflight, i)
        ELSE IF ~result.success
        THEN /\ resp' = Answer(403, "verification_failed")
             /\ out' = NoOut
             /\ logs' = <<TurnstileFailedLine(Get(inflight[i].payload, "action").s)>>
             /\ inflight' = Remove(inflight, i)
        ELSE /\ resp' = NoResp
             /\ out' = st.out
             /\ logs' = st.logs
             /\ inflight' = [inflight EXCEPT ![i] = st.cont[1]]
  /\ settled' = NoSettle
  /\ UNCHANGED <<now, rateLimitMap, sweepDue, recentSubmissions, secret,
                 win, accepted, unswept, checked>>

\* The downstream endpoint answers the GET in flight; httpsGet follows,
\* resolves or rejects, and on settlement the handler resumes after step 6.
RelayReply(i, reply) ==
  /\ i \in 1..Len(inflight)
  /\ inflight[i].pc = "relay"
  /\ LET c == inflight[i]
         h == httpsGet(c.maxRedirects, reply)
         id == Get(c.payload, "submission_id")
     IN CASE h.do = "follow" ->
               /\ inflight' = [inflight EXCEPT ![i].maxRedirects = @ - 1,
                                               ![i].gets = @ + 1]
               /\ resp' = NoResp
               /\ out' = [NoOut EXCEPT !.kind = "redirect"]
               /\ settled' = NoSettle
               /\ logs' = <<>>
               /\ UNCHANGED accepted
          [] h.do = "resolve" ->
               /\ inflight' = Remove(inflight, i)
               /\ resp' = Translate(reply)
               /\ out' = NoOut
               /\ settled' = [state |-> "resolved", statusCode |-> reply.statusCode,
                              json |-> reply.json, marker |-> reply.marker,
                              reason |-> ""]
               /\ logs' = IF ~reply.json /\ reply.marker THEN <<SignInPageLine>> ELSE <<>>
               /\ accepted' = IF Truthy(id) THEN accepted \cup {id.s} ELSE accepted
          [] OTHER ->
               /\ inflight' = Remove(inflight, i)
               /\ resp' = Answer(500, "server_error")
               /\ out' = NoOut
               /\ settled' = [NoSettle EXCEPT !.state = "rejected", !.reason = h.reason]
               /\ logs' = <<ProxyErrorLine(h.reason)>>
               /\ UNCHANGED accepted
  /\ UNCHANGED <<now, rateLimitMap, sweepDue, recentSubmissions, secret, win,
                 unswept, checked>>

NoCheck == [payload |-> NoBody, errors |-> <<>>, done |-> FALSE]

InitProxy ==
  /\ now = 1
  /\ rateLimitMap = [ip \in Ips |-> NoEntry]
  /\ sweepDue = 1 + SWEEP_INTERVAL
  /\ recentSubmissions = [id \in Ids |-> NoStamp]
  /\ secret \in BOOLEAN
  /\ inflight = <<>>
  /\ resp = NoResp
  /\ out = NoOut
  /\ settled = NoSettle
  /\ logs = <<>>
  /\ win = [ip \in Ips |-> NoWin]
  /\ accepted = {}
  /\ unswept = [ip \in Ips |-> NoEntry]

Init == InitProxy /\ checked = NoCheck

InitLimiter == Init /\ secret = FALSE

NextLimiter ==
  \/ \E t \in Instants : Tick(t)
  \/ Sweep
  \/ \E ip \in Ips : CallCheckRateLimit(ip)

SpecLimiter == InitLimiter /\ [][NextLimiter]_vars

\* The requests the handler is followed through: at most MaxPosts POSTs per
\* identifier and window.
Followed(req) == req.method = "POST" => CanPost(ClientIp(req.xff))

Next ==
  \/ \E t \in HandlerInstants : Tick(t)
  \/ Sweep
  \/ \E req \in Requests :
       Followed(req) /\ HandlerStart(req) /\ Len(inflight') <= MaxInflight
  \/ \E i \in 1..MaxInflight, outcome \in TurnstileOutcomes : VerifyResolve(i, outcome)
  \/ \E i \in 1..MaxInflight, reply \in RelayReplies : RelayReply(i, reply)

Spec == Init /\ [][Next]_vars

\* A burst from one client: every POST of a window is followed, up to
\* MaxExcess past the ceiling, for a few requests.
BurstRequests ==
  { [method |-> "POST", xff |-> <<" ip1">>, body |-> b] :
      b \in {NoBody,
             Payload(StrV("landing", 7), StrV("s1", 2), StrV("tok", 3), GoodEmail, Undef)} }
  \cup { [method |-> "POST", xff |-> <<" ip1">>,
          body |-> Payload(StrV("scorecard", 9), Undef, Undef, em, NumV(75))] :
           em \in {NumV(12345), StrV("aaa...a@b.co", 255)} }
  \cup { [method |-> "GET", xff |-> <<" ip1">>, body |-> NoBody] }

\* The replies that end a relay: a response without a Location header, a
\* transport error, the timeout.
FinalReplies == { reply \in RelayReplies : reply.location = "" }

InBurst(req) == req.method = "POST" => CanCall(ClientIp(req.xff))

NextBurst ==
  \/ \E t \in HandlerInstants : Tick(t)
  \/ Sweep
  \/ \E req \in BurstRequests :
       InBurst(req) /\ HandlerStart(req) /\ Len(inflight') <= MaxInflight
  \/ \E i \in 1..MaxInflight, outcome \in TurnstileOutcomes : VerifyResolve(i, outcome)
  \/ \E i \in 1..MaxInflight, reply \in FinalReplies : RelayReply(i, reply)

SpecBurst == Init /\ [][NextBurst]_vars

\* Requests that race: the same submission_id, several suspended at once.
ConcurrentRequests ==
  { [method |-> "POST", xff |-> NoHeader, body |-> b] :
      b \in { Payload(StrV("landing", 7), StrV("s1", 2), StrV("tok", 3), GoodEmail, Undef),
              Payload(StrV("scorecard", 9), StrV("s1", 2), Undef, GoodEmail, NumV(75)) } }

NextConcurrent ==
  \/ \E t \in HandlerInstants : Tick(t)
  \/ Sweep
  \/ \E req \in ConcurrentRequests :
       Followed(req) /\ HandlerStart(req) /\ Len(inflight') <= MaxConcurrent
  \/ \E i \in 1..MaxConcurrent, outcome \in TurnstileOutcomes : VerifyResolve(i, outcome)
  \/ \E i \in 1..MaxConcurrent, reply \in FinalReplies : RelayReply(i, reply)

SpecConcurrent == Init /\ [][NextConcurrent]_vars

\* ------------------------------------- validateScorecardPayload on its own
ScoreValues(hi) ==
  { Undef, Null, Bool(TRUE), StrV("", 0), StrV("abc", 3), NumStr(hi),
    NumV(0 - MaxOver), NumV(0), NumV(hi), NumV(hi + MaxOver) }

SegmentValues ==
  { Undef, Null, NumV(0), StrV("", 0), StrV("AB", 2) }
  \cup { StrV(x, 1) : x \in ValidSegments \cup {"E"} }

\* A scorecard payload with an exit_score, one pillar field and a segment.
ScorePayload(score, field, value, segment) ==
  LET all == [f \in {"action", "exit_score", field, "segment"} |->
                CASE f = "action" -> StrV("scorecard", 9)
                  [] f = "exit_score" -> score
                  [] f = field -> value
                  [] OTHER -> segment]
  IN [f \in {g \in DOMAIN all : all[g] # Undef} |-> all[f]]

ScorecardInputs ==
  { ScorePayload(score, PillarFields[k], value, segment) :
      score \in ScoreValues(100), k \in 1..Len(PillarFields),
      value \in ScoreValues(20), segment \in SegmentValues }

InitValidate ==
  /\ InitProxy
  /\ secret = FALSE
  /\ checked \in { [payload |-> p, errors |-> <<>>, done |-> FALSE] : p \in ScorecardInputs }

Validate ==
  /\ ~checked.done
  /\ checked' = [checked EXCEPT !.errors = validateScorecardPayload(checked.payload),
                                !.done = TRUE]
  /\ UNCHANGED <<now, rateLimitMap, sweepDue, recentSubmissions, secret, inflight,
                 resp, out, settled, logs, win, accepted, unswept>>

NextValidate == Validate

SpecValidate == InitValidate /\ [][NextValidate]_vars

\* ------------------------------------------------------- rate-limit claims
\* C1: in every window opened by checkRateLimit, the first RATE_LIMIT_MAX calls
\* for the identifier made while now <= resetAt are all admitted and the next
\* one is denied, whatever calls other identifiers make in between.
C1_CeilingPerWindow ==
  \A ip \in Ips :
    /\ win[ip].calls <= RATE_LIMIT_MAX => win[ip].admitted = win[ip].calls
    /\ win[ip].calls = RATE_LIMIT_MAX + 1 => win[ip].admitted = RATE_LIMIT_MAX

C1_Witness ==
  /\ win["ip1"].calls = RATE_LIMIT_MAX + 1
  /\ win["ip1"].admitted = RATE_LIMIT_MAX
  /\ win["unknown"].calls > 0
  /\ now <= win["unknown"].resetAt

Active(ip) == rateLimitMap[ip] # NoEntry /\ now <= rateLimitMap[ip].resetAt

\* C2 as stated: the stored count of an active window never exceeds
\* RATE_LIMIT_MAX.
C2_StoredCountWithinCeiling ==
  \A ip \in Ips : Active(ip) => rateLimitMap[ip].count <= RATE_LIMIT_MAX

\* C2 as amended: in an active window the stored count less the calls denied
\* in that window, which is the number of calls admitted in it, never exceeds
\* RATE_LIMIT_MAX.
C2_AdmittedWithinCeiling ==
  \A ip \in Ips :
    Active(ip) =>
      /\ win[ip].admitted <= RATE_LIMIT_MAX
      /\ rateLimitMap[ip].count - (win[ip].calls - win[ip].admitted) <= RATE_LIMIT_MAX

C2_Witness ==
  \E ip \in Ips :
    /\ Active(ip)
    /\ rateLimitMap[ip].count = RATE_LIMIT_MAX + 2
    /\ win[ip].admitted = RATE_LIMIT_MAX

\* C3: once an identifier has been denied, its first call made strictly after
\* that window's resetAt is admitted and opens a fresh window (count 1,
\* resetAt = now + RATE_LIMIT_WINDOW), whether the sweep removed the entry in
\* between or not.
C3_ReadmittedAfterExpiry ==
  [][\A ip \in Ips :
       (win[ip].denied /\ now > win[ip].resetAt /\ CallCheckRateLimit(ip)) =>
         /\ rateLimitMap'[ip] = [count |-> 1, resetAt |-> now + RATE_LIMIT_WINDOW]
         /\ win'[ip].admitted = 1
         /\ win'[ip].calls = 1]_vars

C3_Witness ==
  \E ip \in Ips :
    /\ win[ip].afterDeny
    /\ win[ip].swept
    /\ win[ip].admitted = 1
    /\ rateLimitMap[ip] = [count |-> 1, resetAt |-> now + RATE_LIMIT_WINDOW]

C3_WitnessUnswept ==
  \E ip \in Ips :
    /\ win[ip].afterDeny
    /\ ~win[ip].swept
    /\ win[ip].admitted = 1
    /\ rateLimitMap[ip] = [count |-> 1, resetAt |-> now + RATE_LIMIT_WINDOW]

\* ---------------------------------------------------------- handler claims
IsPost(req) == req.method = "POST"

BadAction(body) ==
  \/ body = NoBody
  \/ ~Truthy(Get(body, "action"))
  \/ Get(body, "action").s \notin {"landing", "scorecard"}

\* C4 as stated: a POST admitted by the rate limiter whose body is missing,
\* has no or an empty action, or has an unknown action is answered 400 and
\* causes no outbound call, whatever its submission_id and the ledgers hold.
C4_BadActionRejected ==
  [][\A req \in Requests :
       (IsPost(req) /\ BadAction(req.body) /\ HandlerStart(req) /\ resp'.status # 429) =>
         /\ resp'.status = 400
         /\ out'.kind = "none"
         /\ inflight' = inflight]_vars

\* C5 as stated: the "duplicate / Already processed" answer for a
\* submission_id is only given after an earlier request with that
\* submission_id was relayed with a final response.
C5_DuplicateMeansAccepted ==
  [][\A req \in Requests :
       (IsPost(req) /\ HandlerStart(req) /\ resp'.kind = "duplicate") =>
         Get(req.body, "submission_id").s \in accepted]_vars

\* C6: once X is recorded at time t, a request with X that reaches the
\* duplicate check at a time <= t + DEDUP_WINDOW is answered 200 "duplicate",
\* causes no verification and no relay call and leaves the recorded timestamp
\* as it is; one that reaches it at a time > t + DEDUP_WINDOW is treated as
\* new and recorded again.
ReachesDuplicateCheck(req) ==
  /\ IsPost(req)
  /\ req.body # NoBody
  /\ Truthy(Get(req.body, "action"))
  /\ Truthy(Get(req.body, "submission_id"))

C6_RetentionWindow ==
  [][\A req \in Requests :
       (/\ ReachesDuplicateCheck(req)
        /\ recentSubmissions[Get(req.body, "submission_id").s] # NoStamp
        /\ HandlerStart(req)
        /\ resp'.status # 429) =>
         LET x == Get(req.body, "submission_id").s IN
         IF now <= recentSubmissions[x] + DEDUP_WINDOW
         THEN /\ resp' = Answer(200, "duplicate")
              /\ out'.kind = "none"
              /\ inflight' = inflight
              /\ recentSubmissions'[x] = recentSubmissions[x]
         ELSE /\ resp'.kind # "duplicate"
              /\ recentSubmissions'[x] = now]_vars

C6_Witness ==
  /\ resp.kind = "duplicate"
  /\ recentSubmissions["s1"] # NoStamp
  /\ now = recentSubmissions["s1"] + DEDUP_WINDOW

C6_WitnessRecordedAgain ==
  /\ "s1" \in accepted
  /\ inflight # <<>>
  /\ Get(inflight[1].payload, "submission_id") = StrV("s1", 2)
  /\ recentSubmissions["s1"] = now
  /\ now > 1 + DEDUP_WINDOW

\* C7: the payload serialized into the relay URL never has a turnstileToken
\* field, for both actions, whether verification ran, was skipped or does not
\* apply.
C7_TokenNeverRelayed == out.kind = "relay" => ~out.token

C7_Witness ==
  out.kind = "relay" /\ out.hadToken /\ out.verified /\ out.action = "landing"

C7_WitnessSkipped ==
  out.kind = "relay" /\ out.hadToken /\ ~secret /\ out.action = "landing"

C7_WitnessScorecard ==
  out.kind = "relay" /\ out.hadToken /\ secret /\ out.action = "scorecard"

\* C8: with a secret configured, a valid landing request is relayed only
\* after the verification service returned a success verdict; a non-success
\* verdict, an unparseable body, a transport error or the timeout is answered
\* 403 and no relay request is made.
VerificationFailures == {"failure", "no_verdict", "unparseable", "error", "timeout"}

C8_RelayOnlyAfterVerification ==
  [][/\ \A req \in Requests :
          (/\ IsPost(req)
           /\ secret
           /\ req.body # NoBody
           /\ Get(req.body, "action") = StrV("landing", 7)
           /\ HandlerStart(req)) => out'.kind # "relay"
     /\ \A i \in 1..MaxInflight, outcome \in TurnstileOutcomes :
          VerifyResolve(i, outcome) =>
            /\ outcome \in VerificationFailures =>
                 /\ resp' = Answer(403, "verification_failed")
                 /\ out'.kind # "relay"
                 /\ inflight' = Remove(inflight, i)
            /\ out'.kind = "relay" => outcome = "success"]_vars

C8_Witness ==
  resp = Answer(403, "verification_failed") /\ secret

C8_WitnessRelayed ==
  out.kind = "relay" /\ out.verified /\ secret

\* C9: httpsGet with the default budget issues at most 6 GETs: a redirect
\* (301/302/303/307 with a Location) answering the 6th is rejected with
\* "Too many redirects", an earlier one is followed, and a non-redirect
\* response resolves the promise with that response's status and body.
IsRedirect(reply) ==
  /\ reply.type = "response"
  /\ reply.statusCode \in {301, 302, 303, 307}
  /\ reply.location # ""

C9_RedirectBudget ==
  [][\A i \in 1..MaxInflight, reply \in RelayReplies :
       RelayReply(i, reply) =>
         /\ inflight[i].gets <= DEFAULT_MAX_REDIRECTS + 1
         /\ (IsRedirect(reply) /\ inflight[i].gets = DEFAULT_MAX_REDIRECTS + 1) =>
              /\ settled'.state = "rejected"
              /\ settled'.reason = "Too many redirects"
              /\ inflight' = Remove(inflight, i)
         /\ (IsRedirect(reply) /\ inflight[i].gets <= DEFAULT_MAX_REDIRECTS
               /\ reply.location # "malformed") =>
              /\ Len(inflight') = Len(inflight)
              /\ inflight'[i].gets = inflight[i].gets + 1
         /\ (reply.type = "response" /\ ~IsRedirect(reply)) =>
              /\ settled'.state = "resolved"
              /\ settled'.statusCode = reply.statusCode
              /\ settled'.json = reply.json
              /\ settled'.marker = reply.marker
              /\ inflight' = Remove(inflight, i)]_vars

C9_Witness ==
  settled.state = "rejected" /\ settled.reason = "Too many redirects"

C9_WitnessLastHop ==
  inflight # <<>> /\ inflight[1].pc = "relay" /\ inflight[1].gets = DEFAULT_MAX_REDIRECTS + 1

\* C10: whenever httpsGet resolves, the handler answers 200: the parsed value
\* if the body is JSON, else a configuration error if the body has the
\* sign-in marker, else "forwarded" with the observed status code; a 500 never
\* answers a relay that resolved.
C10_ResolvedRelayIs200 ==
  /\ settled.state = "resolved" =>
       /\ resp.status = 200
       /\ resp.kind = IF settled.json THEN "parsed"
                      ELSE IF settled.marker THEN "configuration_error"
                      ELSE "forwarded"
       /\ resp.kind = "forwarded" => resp.httpStatus = settled.statusCode
  /\ resp.status = 500 => settled.state # "resolved"

C10_Witness ==
  /\ settled.state = "resolved"
  /\ ~settled.json
  /\ settled.marker
  /\ resp = Answer(200, "configuration_error")

C10_WitnessForwarded ==
  /\ settled.state = "resolved"
  /\ resp.kind = "forwarded"
  /\ resp.httpStatus = 302

\* ------------------------------------------------- gate and validation claims
\* C11: a request whose method is neither POST nor OPTIONS is answered 405
\* with an Allow: POST header, an OPTIONS request is answered an empty 200;
\* both responses carry the three CORS headers, and the step leaves the
\* rate-limit ledger, the dedup ledger and the suspended invocations as they
\* are and issues no outbound request.
C11_GateTouchesNothing ==
  [][\A req \in Requests :
       (~IsPost(req) /\ HandlerStart(req)) =>
         /\ IF req.method = "OPTIONS"
            THEN /\ resp'.status = 200
                 /\ resp'.kind = "empty"
                 /\ resp'.headers = CorsHeaders
            ELSE /\ resp'.status = 405
                 /\ resp'.headers = CorsHeaders \cup {<<"Allow", "POST">>}
         /\ Cardinality(CorsHeaders) = 3
         /\ rateLimitMap' = rateLimitMap
         /\ recentSubmissions' = recentSubmissions
         /\ inflight' = inflight
         /\ out'.kind = "none"]_vars

C11_Witness ==
  /\ resp.status = 405
  /\ <<"Allow", "POST">> \in resp.headers
  /\ rateLimitMap["unknown"] # NoEntry
  /\ recentSubmissions["s1"] # NoStamp
  /\ inflight # <<>>

C11_WitnessPreflight ==
  /\ resp.status = 200
  /\ resp.kind = "empty"
  /\ rateLimitMap["unknown"] # NoEntry
  /\ inflight # <<>>

\* The violation list of the body's ruleset, for a body with a known action.
HasRuleset(body) ==
  body # NoBody /\ Get(body, "action") \in {StrV("landing", 7), StrV("scorecard", 9)}

Violations(body) ==
  IF Get(body, "action") = StrV("landing", 7)
  THEN validateLandingPayload(body) ELSE validateScorecardPayload(body)

\* The requests of the model whose body fails its ruleset.
InvalidRequests ==
  { req \in Requests :
      IsPost(req) /\ HasRuleset(req.body) /\ Violations(req.body) # <<>> }

\* The request gets past the rate limiter and the duplicate check.
ReachesValidation(req) ==
  /\ checkRateLimit(rateLimitMap, ClientIp(req.xff), now).ok
  /\ ~isDuplicate(recentSubmissions, Get(req.body, "submission_id"), now).dup

\* C12: a request that reaches validation and whose ruleset returns a
\* non-empty violation list is answered 400 "Validation failed" with exactly
\* that list as details, and neither a verification nor a relay request is
\* issued for it.
C12_ValidationFailureIs400 ==
  [][\A req \in InvalidRequests :
       (ReachesValidation(req) /\ HandlerStart(req)) =>
         /\ resp'.status = 400
         /\ resp'.kind = "validation_failed"
         /\ resp'.details = Violations(req.body)
         /\ out'.kind = "none"
         /\ inflight' = inflight]_vars

C12_Witness ==
  /\ secret
  /\ resp.status = 400
  /\ resp.kind = "validation_failed"
  /\ resp.details = <<Violation("email", "invalid format")>>

C12_WitnessScorecard ==
  /\ resp.status = 400
  /\ resp.kind = "validation_failed"
  /\ resp.details = <<Violation("exit_score", "invalid")>>

\* C13: once checkRateLimit has denied an identifier in a window, every
\* further call for it made while now <= resetAt is denied too, adds one to
\* the stored count and leaves resetAt as it is.
C13_DenyStaysDeny ==
  [][\A ip \in Ips :
       (win[ip].denied /\ InWindow(win[ip], now) /\ CallCheckRateLimit(ip)) =>
         /\ win'[ip].calls = win[ip].calls + 1
         /\ win'[ip].admitted = win[ip].admitted
         /\ rateLimitMap'[ip].count = rateLimitMap[ip].count + 1
         /\ rateLimitMap'[ip].resetAt = rateLimitMap[ip].resetAt
         /\ rateLimitMap'[ip].resetAt = win[ip].resetAt]_vars

C13_Witness ==
  \E ip \in Ips :
    /\ win[ip].calls = RATE_LIMIT_MAX + 2
    /\ win[ip].admitted = RATE_LIMIT_MAX
    /\ rateLimitMap[ip] = [count |-> RATE_LIMIT_MAX + 2, resetAt |-> win[ip].resetAt]
    /\ now = win[ip].resetAt

\* C14: a POST that the rate limiter denies is answered 429 whatever its body
\* is, leaves the dedup ledger as it is (its submission_id is not recorded)
\* and issues no verification and no relay request.
C14_DenialShortCircuits ==
  [][\A req \in BurstRequests :
       (/\ IsPost(req)
        /\ ~checkRateLimit(rateLimitMap, ClientIp(req.xff), now).ok
        /\ HandlerStart(req)) =>
         /\ resp' = Answer(429, "rate_limited")
         /\ recentSubmissions' = recentSubmissions
         /\ inflight' = inflight
         /\ out'.kind = "none"]_vars

C14_Witness ==
  /\ resp.status = 429
  /\ rateLimitMap["ip1"].count > RATE_LIMIT_MAX
  /\ now <= rateLimitMap["ip1"].resetAt
  /\ recentSubmissions["s1"] = NoStamp

C14_WitnessBusy ==
  /\ resp.status = 429
  /\ rateLimitMap["ip1"].count > RATE_LIMIT_MAX
  /\ recentSubmissions["s1"] # NoStamp
  /\ inflight # <<>>

\* The requests of the model whose action is present and not a known one.
UnknownActionRequests ==
  { req \in Requests :
      /\ IsPost(req)
      /\ req.body # NoBody
      /\ Truthy(Get(req.body, "action"))
      /\ Get(req.body, "action").s \notin {"landing", "scorecard"} }

\* C15 as stated: the known-action check runs before the duplicate check, so
\* a request with an unrecognized action never adds its submission_id to the
\* dedup ledger.
C15_UnknownActionNotRecorded ==
  [][\A req \in UnknownActionRequests :
       (/\ Truthy(Get(req.body, "submission_id"))
        /\ recentSubmissions[Get(req.body, "submission_id").s] = NoStamp
        /\ HandlerStart(req)) =>
         recentSubmissions'[Get(req.body, "submission_id").s] = NoStamp]_vars

\* What the claim and the spec call a number within [lo, hi]: a number, or a
\* non-empty string that parses as one, with lo <= value <= hi.
NumberWithin(v, lo, hi) ==
  /\ v.t = "number" \/ (v.t = "string" /\ v.len > 0)
  /\ ~v.nan
  /\ lo <= v.n
  /\ v.n <= hi

Reported(errors, field) == \E i \in 1..Len(errors) : errors[i].field = field

\* C16 as stated: validateScorecardPayload reports a violation for exit_score
\* when it is present and not a number within [0, 100], for a pillar field
\* when it is present and not a number within [0, 20], and for segment when it
\* is present and not one of A, B, C, D, F; and it reports none for a field
\* that is absent or within its range.
C16_ScorecardRanges ==
  checked.done =>
    LET p == checked.payload
        bad(f, hi) == f \in DOMAIN p /\ ~NumberWithin(p[f], 0, hi)
        badSegment == /\ "segment" \in DOMAIN p
                      /\ ~(p["segment"].t = "string" /\ p["segment"].s \in ValidSegments)
    IN /\ Reported(checked.errors, "exit_score") <=> bad("exit_score", 100)
       /\ \A k \in 1..Len(PillarFields) :
            Reported(checked.errors, PillarFields[k]) <=> bad(PillarFields[k], 20)
       /\ Reported(checked.errors, "segment") <=> badSegment

\* The scorecard requests of the model whose email is present and is not a
\* string of at most 254 characters.
BadEmailScorecards ==
  { req \in BurstRequests :
      /\ IsPost(req)
      /\ req.body # NoBody
      /\ Get(req.body, "action") = StrV("scorecard", 9)
      /\ "email" \in DOMAIN req.body
      /\ (req.body["email"].t # "string" \/ req.body["email"].len > 254) }

\* C17 as stated: a scorecard request whose email is present and is not a
\* string, or is a string longer than 254 characters, fails validation and is
\* not relayed.
C17_ScorecardEmailChecked ==
  [][\A req \in BadEmailScorecards :
       (ReachesValidation(req) /\ HandlerStart(req)) =>
         /\ resp'.status = 400
         /\ resp'.kind = "validation_failed"
         /\ out'.kind # "relay"
         /\ inflight' = inflight]_vars

\* ------------------------------------------------------------- log claims
Contains(line, text) ==
  \E i \in 1..(Len(line) - Len(text) + 1) : SubSeq(line, i, i + Len(text) - 1) = text

\* No line has the client's identifier in full or the payload's email.
Anonymous(lines, ip, payload) ==
  \A k \in 1..Len(lines) :
    /\ ~Contains(lines[k], ip)
    /\ (payload # NoBody /\ Get(payload, "email").t = "string"
          /\ Get(payload, "email").len > 0) =>
         ~Contains(lines[k], Get(payload, "email").s)

\* C18 as stated: no console line written by the handler contains the
\* client's complete IP string or the submitted email, whatever the length of
\* the identifier and on every path (rate-limited, verification failed,
\* forwarded, error).
C18_NoPiiInLogs ==
  [][/\ \A req \in BurstRequests :
          (IsPost(req) /\ HandlerStart(req)) =>
            Anonymous(logs', ClientIp(req.xff), req.body)
     /\ \A i \in 1..MaxInflight :
          (\/ \E outcome \in TurnstileOutcomes : VerifyResolve(i, outcome)
           \/ \E reply \in FinalReplies : RelayReply(i, reply)) =>
            Anonymous(logs', inflight[i].ip, inflight[i].payload)]_vars

\* ------------------------------------------------------ concurrency claims
Carries(payload, x) == Get(payload, "submission_id") = StrV(x, Len(x))

\* C19 as stated: of the requests carrying the same submission_id that are in
\* flight at once, at most one has passed the duplicate check.
C19_OneInFlightPerId ==
  \A i, j \in 1..Len(inflight) :
    (i # j /\ Truthy(Get(inflight[i].payload, "submission_id"))) =>
      Get(inflight[i].payload, "submission_id") # Get(inflight[j].payload, "submission_id")

\* C19 as amended: while a request carrying X that passed the duplicate
\* check at time t is in flight, every other request carrying X that reaches
\* the duplicate check at a time <= t + DEDUP_WINDOW is answered "duplicate"
\* and reaches neither the verification nor the relay; so the requests
\* carrying X that are in flight at once passed the check more than
\* DEDUP_WINDOW apart.
C19_OnePassesPerRetentionWindow ==
  /\ \A i, j \in 1..Len(inflight) :
       (i < j /\ Carries(inflight[i].payload, "s1") /\ Carries(inflight[j].payload, "s1")) =>
         inflight[j].at > inflight[i].at + DEDUP_WINDOW
  /\ \A i \in 1..Len(inflight) :
       (Carries(inflight[i].payload, "s1") /\ now <= inflight[i].at + DEDUP_WINDOW) =>
         /\ recentSubmissions["s1"] # NoStamp
         /\ isDuplicate(recentSubmissions, StrV("s1", 2), now).dup

C19_Witness ==
  /\ Len(inflight) = 1
  /\ Carries(inflight[1].payload, "s1")
  /\ resp = Answer(200, "duplicate")
  /\ now > inflight[1].at
  /\ now <= inflight[1].at + DEDUP_WINDOW

C19_WitnessExpired ==
  /\ Len(inflight) = 2
  /\ Carries(inflight[1].payload, "s1")
  /\ Carries(inflight[2].payload, "s1")

\* ------------------------------------------------------------ sweep claims
\* C20: the sweep removes only entries whose window has expired (an entry
\* missing from the ledger but present in the ledger kept without sweeps has
\* now > resetAt, every other entry is the same in both), and a
\* checkRateLimit call for any identifier returns the same decision on the
\* swept ledger as on the one that was never swept.
C20_SweepKeepsDecisions ==
  \A ip \in Ips :
    /\ rateLimitMap[ip] # unswept[ip] =>
         /\ rateLimitMap[ip] = NoEntry
         /\ now > unswept[ip].resetAt
    /\ checkRateLimit(rateLimitMap, ip, now).ok = checkRateLimit(unswept, ip, now).ok

C20_Witness ==
  \E ip, other \in Ips :
    /\ rateLimitMap[ip] = NoEntry
    /\ unswept[ip] # NoEntry
    /\ rateLimitMap[other] # NoEntry
    /\ now <= rateLimitMap[other].resetAt
    /\ rateLimitMap[other].count > RATE_LIMIT_MAX
    /\ sweepDue > now

C20_WitnessReopened ==
  \E ip \in Ips :
    /\ win[ip].swept
    /\ win[ip].calls > 1
    /\ rateLimitMap[ip] = unswept[ip]
    /\ rateLimitMap[ip] # NoEntry

====
